---- MODULE Spec2Model ----
(***************************************************************************)
(* A model of the jira-issue-api client: the two domain value parsers      *)
(* (IssueKey, WorklogDuration), the credential-to-header builder and the   *)
(* operations of JiraAPIClient.  Strings the parsers and the header        *)
(* builder inspect are sequences of one-character strings.                 *)
(***************************************************************************)
EXTENDS Integers, Sequences, FiniteSets, TLC

VARIABLES
    keyInput,    \* the String handed to an IssueKey construction path
    keyVia,      \* how the IssueKey was made: "none", "try_from", "deserialize", "construct"
    keyResult,   \* Result<IssueKey, JiraClientError> of that path
    keyShown,    \* Option<String>: what to_string() gave for the IssueKey
    keyAgain,    \* Option<Result<IssueKey, _>>: try_from on that shown string
    durInput,    \* the String handed to WorklogDuration::try_from
    durPc,       \* "start" or "done"
    durResult,   \* Result<WorklogDuration, JiraClientError>
    durShown,    \* Option<String>: what to_string() gave for the WorklogDuration
    credential,  \* the Credential handed to build_headers
    hdrPc,       \* "start" or "done"
    hdrResult,   \* the HeaderMap build_headers returns, or its panic
    client,      \* the JiraAPIClient (url, version, max_results, credential, cloud feature)
    call,        \* the one call of a client operation that is in progress
    sent,        \* the requests handed to the transport during that call
    fieldsInput, \* the module of IssueFields and the entries of the wire object
    fieldsPc,    \* "start" or "done"
    fieldsResult,\* Result<IssueFields, serde_json::Error>
    calls,       \* the calls in progress of the callers that share one client
    reCells,     \* the statics ISSUE_RE and WORKLOG_RE: OnceLock<Regex>
    threads      \* the threads that call try_from, each at its place in the call

vars == <<keyInput, keyVia, keyResult, keyShown, keyAgain, durInput, durPc, durResult, durShown,
          credential, hdrPc, hdrResult, client, call, sent,
          fieldsInput, fieldsPc, fieldsResult, calls, reCells, threads>>

keyVars == <<keyInput, keyVia, keyResult, keyShown, keyAgain>>
durVars == <<durInput, durPc, durResult, durShown>>
hdrVars == <<credential, hdrPc, hdrResult>>
cliVars == <<client, call, sent>>
fldVars == <<fieldsInput, fieldsPc, fieldsResult>>
onceVars == <<reCells, threads>>

----------------------------------------------------------------------------
(* Strings as sequences of characters *)

\* All sequences over S of length at most n.
SeqsUpTo(S, n) == UNION {[1..k -> S] : k \in 0..n}

RECURSIVE Concat(_)
\* The concatenation of a sequence of sequences.
Concat(ss) == IF ss = <<>> THEN <<>> ELSE Head(ss) \o Concat(Tail(ss))

\* t occurs in s as a contiguous substring.
Contains(s, t) ==
    \E i \in 1..(Len(s) - Len(t) + 1) : SubSeq(s, i, i + Len(t) - 1) = t

Ok(v) == [ok |-> TRUE, val |-> v]
Err(kind) == [ok |-> FALSE, err |-> kind]

\* Option<T>: <<>> is None, <<v>> is Some(v).
None == <<>>
Some(v) == <<v>>

\* write!(f, ...) with the literal pieces of the format string and the
\* arguments of its {} holes, each a String shown without width or precision:
\* piece, argument, piece, argument, ...
RECURSIVE write_fmt(_, _)
write_fmt(pieces, args) ==
    IF pieces = <<>> THEN <<>>
    ELSE Head(pieces)
         \o (IF args = <<>> THEN <<>> ELSE Head(args))
         \o write_fmt(Tail(pieces), IF args = <<>> THEN <<>> ELSE Tail(args))

----------------------------------------------------------------------------
(* IssueKey *)

\* Longest key input explored.
MaxKeyLen == 5

\* Characters of key inputs.  "sz" stands for the one character U+00DF, whose
\* uppercase form is the two characters "SS".
KeyChars == {"a", "B", "-", "1", "sz"}

\* char::to_uppercase, one character to the characters it becomes.
UpperChar(c) ==
    CASE c = "a" -> <<"A">>
      [] c = "sz" -> <<"S", "S">>
      [] OTHER -> <<c>>

\* str::to_uppercase
to_uppercase(s) == Concat([i \in 1..Len(s) |-> UpperChar(s[i])])

\* The class [A-Z] of ISSUE_RE, over the characters to_uppercase can produce.
UpperLetters == {"A", "B", "S"}
IsAZ(c) == c \in UpperLetters

\* The class [0-9].
Digits == {"0", "1", "2", "3", "4", "5", "6", "7", "8", "9"}
IsDigit(c) == c \in Digits

RECURSIVE RunLen(_, _, _)
\* The number of consecutive characters of s from position i on that are in
\* the class: what a greedy repetition consumes.
RunLen(class, s, i) ==
    IF i > Len(s) \/ s[i] \notin class THEN 0 ELSE 1 + RunLen(class, s, i + 1)

\* The end position of the match of ISSUE_RE, [A-Z]{2,}-[0-9]+, that starts at
\* position i of s, or 0 when none starts there.  Both repetitions are greedy;
\* giving letters back never helps, the next character would be a letter.
IssueReMatchEnd(s, i) ==
    LET letters == RunLen(UpperLetters, s, i)
        dash    == i + letters
        digits  == RunLen(Digits, s, dash + 1)
    IN  IF letters >= 2 /\ dash <= Len(s) /\ s[dash] = "-" /\ digits >= 1
        THEN dash + digits ELSE 0

\* Regex::captures(..).get(0) for ISSUE_RE: the match at the leftmost start
\* position, as <<start, end>>, or <<0, 0>> when the pattern matches nowhere.
IssueReFind(s) ==
    LET starts == {i \in 1..Len(s) : IssueReMatchEnd(s, i) > 0}
    IN  IF starts = {} THEN <<0, 0>>
        ELSE LET i == CHOOSE x \in starts : \A y \in starts : x <= y
             IN  <<i, IssueReMatchEnd(s, i)>>

\* try_from that keeps the match without its first character.
IssueKey_try_from_DropsFirst(value) ==
    LET upper == to_uppercase(value)
        m     == IssueReFind(upper)
    IN  IF m[1] = 0 THEN Err("TryFromError")
        ELSE Ok(SubSeq(upper, m[1] + 1, m[2]))

\* try_from that matches the input as given, without uppercasing it.
IssueKey_try_from_NoUpper(value) ==
    LET m == IssueReFind(value)
    IN  IF m[1] = 0 THEN Err("TryFromError")
        ELSE Ok(SubSeq(value, m[1], m[2]))

\* impl TryFrom<String> for IssueKey
IssueKey_try_from(value) ==
    LET upper == to_uppercase(value)
        m     == IssueReFind(upper)
    IN  IF m[1] = 0 THEN Err("TryFromError")
        ELSE Ok(SubSeq(upper, m[1], m[2]))

\* #[derive(Deserialize)] on the newtype: any JSON string becomes an IssueKey.
IssueKey_deserialize(value) == Ok(value)

\* The tuple constructor IssueKey(value): the field is public in types.rs, and
\* the tests of models.rs build a key this way.
IssueKey_construct(value) == Ok(value)

\* impl Display for IssueKey that shows the key in upper case.
IssueKey_fmt_Uppercased(key) == write_fmt(<<<<>>>>, <<to_uppercase(key)>>)

\* impl Display for IssueKey: write!(f, "{}", self.0)
IssueKey_fmt(key) == write_fmt(<<<<>>>>, <<key>>)

\* The key variables while another part of the library is explored.
KeyIdle ==
    /\ keyInput = <<>> /\ keyVia = "idle" /\ keyResult = Err("none")
    /\ keyShown = None /\ keyAgain = None

KeyInit ==
    /\ keyInput \in SeqsUpTo(KeyChars, MaxKeyLen)
    /\ keyVia = "none"
    /\ keyResult = Err("none")
    /\ keyShown = None
    /\ keyAgain = None

KeyTryFrom ==
    /\ keyVia = "none"
    /\ keyVia' = "try_from"
    /\ keyResult' = IssueKey_try_from(keyInput)
    /\ UNCHANGED <<keyInput, keyShown, keyAgain, durVars, hdrVars, cliVars, fldVars, calls, onceVars>>

KeyDeserialize ==
    /\ keyVia = "none"
    /\ keyVia' = "deserialize"
    /\ keyResult' = IssueKey_deserialize(keyInput)
    /\ UNCHANGED <<keyInput, keyShown, keyAgain, durVars, hdrVars, cliVars, fldVars, calls, onceVars>>

KeyConstruct ==
    /\ keyVia = "none"
    /\ keyVia' = "construct"
    /\ keyResult' = IssueKey_construct(keyInput)
    /\ UNCHANGED <<keyInput, keyShown, keyAgain, durVars, hdrVars, cliVars, fldVars, calls, onceVars>>

\* to_string() on the IssueKey that was made.
KeyDisplay ==
    /\ keyResult.ok
    /\ keyShown = None
    /\ keyShown' = Some(IssueKey_fmt(keyResult.val))
    /\ UNCHANGED <<keyInput, keyVia, keyResult, keyAgain, durVars, hdrVars, cliVars, fldVars, calls, onceVars>>

\* IssueKey::try_from on the string to_string() gave.
KeyReparse ==
    /\ keyShown # None
    /\ keyAgain = None
    /\ keyAgain' = Some(IssueKey_try_from(keyShown[1]))
    /\ UNCHANGED <<keyInput, keyVia, keyResult, keyShown, durVars, hdrVars, cliVars,
                   fldVars, calls, onceVars>>

----------------------------------------------------------------------------
(* WorklogDuration *)

\* Longest duration input explored.
MaxDurLen == 3

\* Characters of duration inputs: digits, the decimal point, the unit letters in
\* both cases and a character that is none of these.
DurChars == {"0", "1", "5", ".", "m", "M", "h", "H", "d", "D", "w", "W", "x"}

\* The class [WwDdHhMm] of WORKLOG_RE.
IsUnit(c) == c \in {"W", "w", "D", "d", "H", "h", "M", "m"}

\* char::to_lowercase on the characters a WORKLOG_RE match can hold.
LowerChar(c) ==
    CASE c = "W" -> "w"
      [] c = "D" -> "d"
      [] c = "H" -> "h"
      [] c = "M" -> "m"
      [] OTHER -> c

\* str::to_lowercase
to_lowercase(s) == [i \in 1..Len(s) |-> LowerChar(s[i])]

\* The end position of the match of WORKLOG_RE,
\* ([0-9]+(?:\.[0-9]+)?)[WwDdHhMm]?, that starts at position i of s, or 0 when
\* none starts there.  The fraction is taken only when a digit follows the
\* point, the unit only when it follows at once.
WorklogReMatchEnd(s, i) ==
    LET int     == RunLen(Digits, s, i)
        dot     == i + int
        frac    == IF dot <= Len(s) /\ s[dot] = "." THEN RunLen(Digits, s, dot + 1) ELSE 0
        numEnd  == IF frac >= 1 THEN dot + frac ELSE dot - 1
        unitAt  == numEnd + 1
    IN  IF int = 0 THEN 0
        ELSE IF unitAt <= Len(s) /\ IsUnit(s[unitAt]) THEN unitAt ELSE numEnd

\* WORKLOG_RE anchored at the start of the input.
WorklogReFind_Anchored(s) ==
    IF Len(s) >= 1 /\ WorklogReMatchEnd(s, 1) > 0
    THEN <<1, WorklogReMatchEnd(s, 1)>> ELSE <<0, 0>>

\* WORKLOG_RE taken at the last position a match starts at.
WorklogReFind_Last(s) ==
    LET starts == {i \in 1..Len(s) : WorklogReMatchEnd(s, i) > 0}
    IN  IF starts = {} THEN <<0, 0>>
        ELSE LET i == CHOOSE x \in starts : \A y \in starts : x >= y
             IN  <<i, WorklogReMatchEnd(s, i)>>

\* Regex::captures(..).get(0) for WORKLOG_RE: the match at the leftmost start
\* position, as <<start, end>>, or <<0, 0>> when the pattern matches nowhere.
WorklogReFind(s) ==
    LET starts == {i \in 1..Len(s) : WorklogReMatchEnd(s, i) > 0}
    IN  IF starts = {} THEN <<0, 0>>
        ELSE LET i == CHOOSE x \in starts : \A y \in starts : x <= y
             IN  <<i, WorklogReMatchEnd(s, i)>>

\* The value of one decimal digit.
DigitVal(c) ==
    CASE c = "0" -> 0 [] c = "1" -> 1 [] c = "2" -> 2 [] c = "3" -> 3
      [] c = "4" -> 4 [] c = "5" -> 5 [] c = "6" -> 6 [] c = "7" -> 7
      [] c = "8" -> 8 [] c = "9" -> 9

RECURSIVE DigitsVal(_)
\* The number a sequence of decimal digits denotes.
DigitsVal(ds) ==
    IF ds = <<>> THEN 0
    ELSE 10 * DigitsVal(SubSeq(ds, 1, Len(ds) - 1)) + DigitVal(ds[Len(ds)])

RECURSIVE Pow10(_)
Pow10(k) == IF k = 0 THEN 1 ELSE 10 * Pow10(k - 1)

\* str::parse::<f64> on the texts the match can leave: digits, or digits, a
\* point and digits.  The value is kept exact, as numerator and denominator.
parse_f64(s) ==
    LET dots == {i \in 1..Len(s) : s[i] = "."}
        digs == [i \in 1..(Len(s) - Cardinality(dots)) |->
                    LET k == IF dots # {} /\ i >= (CHOOSE d \in dots : TRUE) THEN i + 1 ELSE i
                    IN  s[k]]
    IN  IF /\ Cardinality(dots) <= 1
           /\ \A i \in 1..Len(s) : IsDigit(s[i]) \/ s[i] = "."
           /\ \E i \in 1..Len(s) : IsDigit(s[i])
        THEN [ok |-> TRUE, num |-> DigitsVal(digs),
              den |-> IF dots = {} THEN 1
                      ELSE Pow10(Len(s) - (CHOOSE d \in dots : TRUE))]
        ELSE [ok |-> FALSE, num |-> 0, den |-> 1]

\* The integer format!("{:.0}") prints for num/den >= 0: the nearest integer,
\* a tie going to the even one.
RoundHalfEven(num, den) ==
    LET q == num \div den
        r == num % den
    IN  IF 2 * r < den THEN q
        ELSE IF 2 * r > den THEN q + 1
        ELSE IF q % 2 = 0 THEN q ELSE q + 1

\* One decimal digit as a character.
DigitChar(d) == <<"0", "1", "2", "3", "4", "5", "6", "7", "8", "9">>[d + 1]

RECURSIVE ToDecimal(_)
\* The decimal text of a natural number.
ToDecimal(n) ==
    IF n < 10 THEN <<DigitChar(n)>> ELSE Append(ToDecimal(n \div 10), DigitChar(n % 10))

\* The match arm on worklog.pop(): the multiplier and what is left to parse.
\* A popped digit is pushed back; any other popped character stays popped.
PopUnit_HourAsMinute(worklog) ==
    LET last == worklog[Len(worklog)]
        rest == SubSeq(worklog, 1, Len(worklog) - 1)
    IN  CASE last = "m" -> [mult |-> 60, text |-> rest]
          [] last = "h" -> [mult |-> 60, text |-> rest]
          [] last = "d" -> [mult |-> 3600 * 8, text |-> rest]
          [] last = "w" -> [mult |-> 3600 * 8 * 5, text |-> rest]
          [] IsDigit(last) -> [mult |-> 60, text |-> worklog]
          [] OTHER -> [mult |-> 60, text |-> rest]

PopUnit(worklog) ==
    LET last == worklog[Len(worklog)]
        rest == SubSeq(worklog, 1, Len(worklog) - 1)
    IN  CASE last = "m" -> [mult |-> 60, text |-> rest]
          [] last = "h" -> [mult |-> 3600, text |-> rest]
          [] last = "d" -> [mult |-> 3600 * 8, text |-> rest]
          [] last = "w" -> [mult |-> 3600 * 8 * 5, text |-> rest]
          [] IsDigit(last) -> [mult |-> 60, text |-> worklog]
          [] OTHER -> [mult |-> 60, text |-> rest]

\* impl TryFrom<String> for WorklogDuration
WorklogDuration_try_from(value) ==
    LET m == WorklogReFind(value)
    IN  IF m[1] = 0 THEN Err("TryFromError")
        ELSE LET worklog == to_lowercase(SubSeq(value, m[1], m[2]))
                 unit    == PopUnit(worklog)
                 number  == parse_f64(unit.text)
             IN  IF ~number.ok THEN Err("TryFromError")
                 ELSE Ok(ToDecimal(RoundHalfEven(number.num * unit.mult, number.den)))

\* impl Display for WorklogDuration: write!(f, "{}", self.0)
WorklogDuration_fmt(duration) == write_fmt(<<<<>>>>, <<duration>>)

\* The duration variables while another part of the library is explored.
DurIdle ==
    durInput = <<>> /\ durPc = "idle" /\ durResult = Err("none") /\ durShown = None

DurInit ==
    /\ durInput \in SeqsUpTo(DurChars, MaxDurLen)
    /\ durPc = "start"
    /\ durResult = Err("none")
    /\ durShown = None

DurTryFrom ==
    /\ durPc = "start"
    /\ durPc' = "done"
    /\ durResult' = WorklogDuration_try_from(durInput)
    /\ UNCHANGED <<durInput, durShown, keyVars, hdrVars, cliVars, fldVars, calls, onceVars>>

\* to_string() on the WorklogDuration that was made.
DurDisplay ==
    /\ durResult.ok
    /\ durShown = None
    /\ durShown' = Some(WorklogDuration_fmt(durResult.val))
    /\ UNCHANGED <<durInput, durPc, durResult, keyVars, hdrVars, cliVars, fldVars, calls, onceVars>>

----------------------------------------------------------------------------
(* Credential and build_headers *)

\* Longest login or token explored.
MaxCredLen == 2

\* Characters of logins and tokens.  "LF" stands for the line feed, byte 10.
CredChars == {"a", "b", "LF"}

\* The byte of a character of the text that is base64-encoded.
ByteOf(c) ==
    CASE c = "a" -> 97
      [] c = "b" -> 98
      [] c = ":" -> 58
      [] c = "LF" -> 10

\* enum Credential
Credentials ==
    {[kind |-> "Anonymous"]}
    \cup {[kind |-> "ApiToken", login |-> l, token |-> t] :
             l \in SeqsUpTo(CredChars, MaxCredLen), t \in SeqsUpTo(CredChars, MaxCredLen)}
    \cup {[kind |-> "PersonalAccessToken", token |-> t] :
             t \in SeqsUpTo(CredChars, MaxCredLen)}

\* The alphabet of the standard base64 engine.
B64Alphabet ==
    <<"A", "B", "C", "D", "E", "F", "G", "H", "I", "J", "K", "L", "M",
      "N", "O", "P", "Q", "R", "S", "T", "U", "V", "W", "X", "Y", "Z",
      "a", "b", "c", "d", "e", "f", "g", "h", "i", "j", "k", "l", "m",
      "n", "o", "p", "q", "r", "s", "t", "u", "v", "w", "x", "y", "z",
      "0", "1", "2", "3", "4", "5", "6", "7", "8", "9", "+", "/">>

RECURSIVE Sextets(_)
\* The 6-bit groups of a byte sequence: three bytes give four groups, a last
\* single byte two, a last pair three, the missing low bits being zero.
Sextets(bytes) ==
    IF Len(bytes) = 0 THEN <<>>
    ELSE IF Len(bytes) = 1 THEN
        <<bytes[1] \div 4, (bytes[1] % 4) * 16>>
    ELSE IF Len(bytes) = 2 THEN
        <<bytes[1] \div 4, (bytes[1] % 4) * 16 + bytes[2] \div 16, (bytes[2] % 16) * 4>>
    ELSE
        <<bytes[1] \div 4, (bytes[1] % 4) * 16 + bytes[2] \div 16,
          (bytes[2] % 16) * 4 + bytes[3] \div 64, bytes[3] % 64>>
        \o Sextets(SubSeq(bytes, 4, Len(bytes)))

\* general_purpose::STANDARD_NO_PAD.encode
STANDARD_NO_PAD_encode(text) ==
    LET groups == Sextets([i \in 1..Len(text) |-> ByteOf(text[i])])
    IN  [i \in 1..Len(groups) |-> B64Alphabet[groups[i] + 1]]

\* HeaderValue::from_str accepts a text when each byte is a tab, or at least
\* 32 and not 127.  Of the characters of the model only the line feed fails.
HeaderValueValid(text) == \A i \in 1..Len(text) : text[i] # "LF"

BasicPrefix == <<"B", "a", "s", "i", "c", " ">>
BearerPrefix == <<"B", "e", "a", "r", "e", "r", " ">>
ApplicationJson ==
    <<"a", "p", "p", "l", "i", "c", "a", "t", "i", "o", "n", "/", "j", "s", "o", "n">>

\* The text of the Authorization value for a credential, <<>> for none.
AuthText(cred) ==
    CASE cred.kind = "Anonymous" -> <<>>
      [] cred.kind = "ApiToken" ->
            BasicPrefix \o STANDARD_NO_PAD_encode(cred.login \o <<":">> \o cred.token)
      [] cred.kind = "PersonalAccessToken" -> BearerPrefix \o cred.token

\* build_headers that leaves Content-Type out when there is a credential.
build_headers_AcceptOnly(cred) ==
    LET base == [n \in {"accept", "content-type"} |->
                    [text |-> ApplicationJson, sensitive |-> FALSE]]
    IN  IF cred.kind = "Anonymous" THEN [panic |-> FALSE, headers |-> base]
        ELSE IF ~HeaderValueValid(AuthText(cred)) THEN [panic |-> TRUE]
        ELSE [panic |-> FALSE,
              headers |-> [n \in {"accept", "authorization"} |->
                  IF n = "authorization"
                  THEN [text |-> AuthText(cred), sensitive |-> TRUE]
                  ELSE base[n]]]

\* JiraAPIClient::build_headers.  The result is the HeaderMap, a function from
\* header names to values, or the panic of the unwrap() on a rejected value.
build_headers(cred) ==
    LET base == [n \in {"accept", "content-type"} |->
                    [text |-> ApplicationJson, sensitive |-> FALSE]]
    IN  IF cred.kind = "Anonymous" THEN [panic |-> FALSE, headers |-> base]
        ELSE IF ~HeaderValueValid(AuthText(cred)) THEN [panic |-> TRUE]
        ELSE [panic |-> FALSE,
              headers |-> [n \in {"accept", "content-type", "authorization"} |->
                  IF n = "authorization"
                  THEN [text |-> AuthText(cred), sensitive |-> TRUE]
                  ELSE base[n]]]

\* The header variables while another part of the library is explored.
HdrIdle == credential = [kind |-> "Anonymous"] /\ hdrPc = "idle" /\ hdrResult = [panic |-> FALSE]

HdrInit ==
    /\ credential \in Credentials
    /\ hdrPc = "start"
    /\ hdrResult = [panic |-> FALSE]

BuildHeaders ==
    /\ hdrPc = "start"
    /\ hdrPc' = "done"
    /\ hdrResult' = build_headers(credential)
    /\ UNCHANGED <<credential, keyVars, durVars, cliVars, fldVars, calls, onceVars>>

----------------------------------------------------------------------------
(* Urls *)

\* The url strings a JiraClientConfig is given in the model.
ConfigUrls ==
    {"https://jira.example", "https://jira.example/ctx?x=1#top",
     "http://jira.example", "mailto:ops@jira.example", "jira.example"}

\* Url::parse on the configured strings.  A Url keeps its path as the sequence
\* of its segments; a mailto: url cannot be a base; a text with no scheme is
\* rejected.
Url_parse(text) ==
    CASE text = "https://jira.example" ->
            Ok([scheme |-> "https", host |-> "jira.example", path |-> <<>>,
                query |-> None, fragment |-> None, cannot_be_a_base |-> FALSE])
      [] text = "https://jira.example/ctx?x=1#top" ->
            Ok([scheme |-> "https", host |-> "jira.example", path |-> <<"ctx">>,
                query |-> Some(<<"x=1">>), fragment |-> Some("top"),
                cannot_be_a_base |-> FALSE])
      [] text = "http://jira.example" ->
            Ok([scheme |-> "http", host |-> "jira.example", path |-> <<>>,
                query |-> None, fragment |-> None, cannot_be_a_base |-> FALSE])
      [] text = "mailto:ops@jira.example" ->
            Ok([scheme |-> "mailto", host |-> "", path |-> <<"ops@jira.example">>,
                query |-> None, fragment |-> None, cannot_be_a_base |-> TRUE])
      [] OTHER -> Err("UrlParseError")

\* Url::join that resolves the reference below the path of the base.
Url_join_KeepsBasePath(base, segments) ==
    IF base.cannot_be_a_base THEN Err("UrlParseError")
    ELSE Ok([base EXCEPT !.path = base.path \o segments, !.query = None,
                         !.fragment = None])

\* Url::join with a reference that starts with "/", given as its segments: the
\* path of the base is replaced, its query and fragment are dropped.  A base
\* that cannot be a base refuses every relative reference.
Url_join(base, segments) ==
    IF base.cannot_be_a_base THEN Err("UrlParseError")
    ELSE Ok([base EXCEPT !.path = segments, !.query = None, !.fragment = None])

\* The query percent-encoding of Url::set_query, per piece of text: a space
\* becomes %20, the other pieces of the model are kept.
QueryEncode(q) == [i \in 1..Len(q) |-> IF q[i] = " " THEN "%20" ELSE q[i]]

\* Url::set_query(Some(q))
set_query(url, q) == [url EXCEPT !.query = Some(QueryEncode(q))]

\* The form encoding RequestBuilder::query applies to a value: a space
\* becomes "+".
FormEncode(q) == [i \in 1..Len(q) |-> IF q[i] = " " THEN "+" ELSE q[i]]

----------------------------------------------------------------------------
(* JiraAPIClient *)

\* The credentials a client is configured with in the model; the last one
\* holds a line feed.
ClientCredentials ==
    {[kind |-> "Anonymous"],
     [kind |-> "ApiToken", login |-> <<"a">>, token |-> <<"b">>],
     [kind |-> "PersonalAccessToken", token |-> <<"a", "b">>],
     [kind |-> "PersonalAccessToken", token |-> <<"a", "LF">>]}

\* The values of max_query_results in the model.
PageSizes == {1, 50}

\* struct JiraClientConfig, with the build's "cloud" feature beside it.
Configs ==
    [credential : ClientCredentials, max_query_results : PageSizes,
     url : ConfigUrls, cloud : BOOLEAN]

\* JiraAPIClient::new.  The reqwest Client is kept as its default headers; its
\* build() is taken to succeed (a ConfigError arises only from the TLS backend
\* of the host, and yields no client).
new(cfg) ==
    LET headers == build_headers(cfg.credential)
        url     == Url_parse(cfg.url)
    IN  IF headers.panic THEN [panic |-> TRUE]
        ELSE IF ~url.ok THEN [panic |-> FALSE, ok |-> FALSE, err |-> "UrlParseError"]
        ELSE [panic |-> FALSE, ok |-> TRUE,
              val |-> [url |-> url.val, version |-> "latest",
                       headers |-> headers.headers,
                       max_results |-> cfg.max_query_results,
                       cloud |-> cfg.cloud]]

\* The clients a successful construction yields.
Clients ==
    {new(cfg).val : cfg \in {c \in Configs : ~new(c).panic /\ new(c).ok}}

----------------------------------------------------------------------------
(* The inputs of the operations *)

\* IssueKey values handed to the operations, each one piece of text.
IssueKeys == {"AB-1"}

\* JQL texts.
Queries == {"project = AB"}

\* The offsets of the page a caller of query_issues is after.  The operation
\* takes the query alone: the offset stays with the caller.
StartAts == {0, 50}

\* struct PostWorklogBody
WorklogBodies ==
    [comment : {"done"}, started : {"2024-01-01T00:00:00.000+0000"},
     time_spent : {None, Some("1h")}, time_spent_seconds : {None, Some("3600")}]

\* struct PostCommentBody
CommentBodies == [body : {"hello"}]

\* struct PostTransitionBody
TransitionBodies == [transition : {[id |-> "31"]}, fields : {None}, update : {None}]

\* struct GetAssignableUserParams.  A project may hold a space.
AssignableUserParams ==
    [username : {None, Some(<<"ann">>)},
     project : {None, Some(<<"AB">>), Some(<<"A", " ", "B">>)},
     issue_key : {None} \cup {Some(k) : k \in IssueKeys},
     max_results : {None, Some(5)}]

\* struct User of the build: the hosted one has name, the cloud one account_id.
Users(cloud) ==
    IF cloud
    THEN {[active |-> TRUE, display_name |-> "Ann", account_id |-> "5b10",
           email_address |-> "ann@jira.example"]}
    ELSE {[active |-> TRUE, display_name |-> "Ann", deleted |-> None, name |-> "ann"]}

\* The user argument of get_user.
UserKeys == {<<"ann">>, <<"ann", " ", "lee">>}

\* The filter argument of search_filters.
FilterNames == {None, Some(<<"mine">>)}

----------------------------------------------------------------------------
(* The first half of each operation: up to the request handed to the       *)
(* transport, or the error returned before any is sent.                    *)

Fails(kind) == [sends |-> FALSE, result |-> Err(kind)]
Sends(method, url, body) ==
    [sends |-> TRUE, request |-> [method |-> method, url |-> url, body |-> body]]

NoBody == [type |-> "none"]

\* JiraAPIClient::query_issues, to the send
query_issues(c, query) ==
    LET search_url == Url_join(c.url, <<"rest", "api", "latest", "search">>)
    IN  IF ~search_url.ok THEN Fails("UrlParseError")
        ELSE Sends("POST", search_url.val,
                   [type |-> "PostIssueQueryBody", jql |-> query, start_at |-> 0,
                    max_results |-> c.max_results, fields |-> <<"summary">>])

\* post_worklog that rejects only a body with both fields set.
post_worklog_OnlyBothSet(c, issue_key, body) ==
    LET worklog_url ==
            Url_join(c.url, <<"rest", "api", "latest", "issue", issue_key, "worklog">>)
    IN  IF ~worklog_url.ok THEN Fails("UrlParseError")
        ELSE IF body.time_spent # None /\ body.time_spent_seconds # None
        THEN Fails("JiraRequestBodyError")
        ELSE Sends("POST", worklog_url.val, [type |-> "PostWorklogBody", json |-> body])

\* JiraAPIClient::post_worklog, to the send
post_worklog(c, issue_key, body) ==
    LET worklog_url ==
            Url_join(c.url, <<"rest", "api", "latest", "issue", issue_key, "worklog">>)
    IN  IF ~worklog_url.ok THEN Fails("UrlParseError")
        ELSE IF <<body.time_spent # None, body.time_spent_seconds # None>>
                    \in {<<FALSE, FALSE>>, <<TRUE, TRUE>>}
        THEN Fails("JiraRequestBodyError")
        ELSE Sends("POST", worklog_url.val, [type |-> "PostWorklogBody", json |-> body])

\* JiraAPIClient::post_comment, to the send
post_comment(c, issue_key, body) ==
    LET comment_url ==
            Url_join(c.url, <<"rest", "api", "latest", "issue", issue_key, "comment">>)
    IN  IF ~comment_url.ok THEN Fails("UrlParseError")
        ELSE Sends("POST", comment_url.val, [type |-> "PostCommentBody", json |-> body])

\* JiraAPIClient::get_transitions, to the send
get_transitions(c, issue_key, expand) ==
    LET transitions_url ==
            Url_join(c.url, <<"rest", "api", "latest", "issue", issue_key, "transitions">>)
    IN  IF ~transitions_url.ok THEN Fails("UrlParseError")
        ELSE Sends("GET",
                   IF expand
                   THEN set_query(transitions_url.val, <<"expand=transitions.fields">>)
                   ELSE transitions_url.val,
                   NoBody)

\* JiraAPIClient::post_transition, to the send
post_transition(c, issue_key, transition) ==
    LET transition_url ==
            Url_join(c.url, <<"rest", "api", "latest", "issue", issue_key, "transitions">>)
    IN  IF ~transition_url.ok THEN Fails("UrlParseError")
        ELSE Sends("POST", transition_url.val,
                   [type |-> "PostTransitionBody", json |-> transition])

\* The query text get_assignable_users pushes together, before it is set.
AssignableUsersQuery(cloud, params) ==
    <<"maxResults=">>
    \o ToDecimal(IF params.max_results = None THEN 1000 ELSE params.max_results[1])
    \o (IF params.issue_key = None THEN <<>>
        ELSE <<"&", "issueKey=", params.issue_key[1]>>)
    \o (IF params.username = None THEN <<>>
        ELSE <<"&", IF cloud THEN "query=" ELSE "username=">> \o params.username[1])
    \o (IF params.project = None THEN <<>>
        ELSE <<"&", "project=">> \o params.project[1])

\* get_assignable_users that asks for both project and issue_key.
get_assignable_users_NeedsBoth(c, params) ==
    LET users_url ==
            Url_join(c.url, <<"rest", "api", "latest", "user", "assignable", "search">>)
    IN  IF ~users_url.ok THEN Fails("UrlParseError")
        ELSE IF params.project = None \/ params.issue_key = None
        THEN Fails("JiraRequestBodyError")
        ELSE Sends("GET",
                   set_query(users_url.val, AssignableUsersQuery(c.cloud, params)),
                   NoBody)

\* JiraAPIClient::get_assignable_users, to the send
get_assignable_users(c, params) ==
    LET users_url ==
            Url_join(c.url, <<"rest", "api", "latest", "user", "assignable", "search">>)
    IN  IF ~users_url.ok THEN Fails("UrlParseError")
        ELSE IF params.project = None /\ params.issue_key = None
        THEN Fails("JiraRequestBodyError")
        ELSE Sends("GET",
                   set_query(users_url.val, AssignableUsersQuery(c.cloud, params)),
                   NoBody)

\* impl From<User> for PostAssignBody, with the keys of its JSON form
PostAssignBody_from(cloud, user) ==
    IF cloud THEN [accountId |-> user.account_id] ELSE [name |-> user.name]

\* JiraAPIClient::post_assign_user, to the send
post_assign_user(c, issue_key, user) ==
    LET assign_url ==
            Url_join(c.url, <<"rest", "api", "latest", "issue", issue_key, "assignee">>)
    IN  IF ~assign_url.ok THEN Fails("UrlParseError")
        ELSE Sends("PUT", assign_url.val,
                   [type |-> "PostAssignBody", json |-> PostAssignBody_from(c.cloud, user)])

\* get_user that names the user by username in every build.
get_user_AlwaysUsername(c, user) ==
    LET user_url == Url_join(c.url, <<"rest", "api", "latest", "user">>)
    IN  IF ~user_url.ok THEN Fails("UrlParseError")
        ELSE Sends("GET",
                   [user_url.val EXCEPT !.query = Some(<<"username", "=">> \o FormEncode(user))],
                   NoBody)

\* JiraAPIClient::get_user, to the send
get_user(c, user) ==
    LET user_url == Url_join(c.url, <<"rest", "api", "latest", "user">>)
        key      == IF c.cloud THEN "accountId" ELSE "username"
    IN  IF ~user_url.ok THEN Fails("UrlParseError")
        ELSE Sends("GET",
                   [user_url.val EXCEPT !.query = Some(<<key, "=">> \o FormEncode(user))],
                   NoBody)

\* JiraAPIClient::search_filters (cloud builds only), to the send
search_filters(c, filter) ==
    LET search_url == Url_join(c.url, <<"rest", "api", "latest", "filter", "search">>)
        query ==
            <<"expand=jql", "&", "maxResults=">> \o ToDecimal(c.max_results)
            \o (IF filter = None THEN <<>> ELSE <<"&", "filterName=">> \o filter[1])
    IN  IF ~search_url.ok THEN Fails("UrlParseError")
        ELSE Sends("GET", set_query(search_url.val, query), NoBody)

----------------------------------------------------------------------------
(* The transport and the second half of each operation *)

\* HTTP statuses the service answers with in the model.
Statuses == {200, 401}

\* What a response body holds: a document of the shape the operation expects,
\* the service's error object (a JSON object with none of the expected keys),
\* or text that is no JSON.
Bodies == {"expected", "error_object", "not_json"}

\* What send() yields.  anonymous tells whether the response carries a header
\* that says the session was served as anonymous.
Responses ==
    [kind : {"response"}, status : Statuses, anonymous : BOOLEAN, body : Bodies]

TransportError == [kind |-> "transport_error"]

\* The outcomes of send() for a request: the client is built https_only, so a
\* request to another scheme fails in the transport.
TransportOutcomes(request) ==
    IF request.url.scheme = "https" THEN Responses \cup {TransportError}
    ELSE {TransportError}

\* Response::json::<T>() for the T of each decoding operation, on the body
\* alone.  Every field of PostIssueQueryResponseBody is an Option, and unknown
\* keys are ignored, so any JSON object decodes into it; the other targets
\* have required fields.
json(op, body) ==
    CASE body = "expected" -> Ok([decoded |-> "expected"])
      [] body = "error_object" /\ op = "query_issues" -> Ok([decoded |-> "all_none"])
      [] OTHER -> Err("serde")

\* The operations that hand the Response back undecoded.
RawOps == {"post_worklog", "post_comment", "post_transition", "post_assign_user"}

\* An operation from the reply of send() to its return value.
Finish(op, reply) ==
    IF reply.kind = "transport_error" THEN Err("HttpError")
    ELSE IF op \in RawOps THEN Ok(reply)
    ELSE IF json(op, reply.body).ok THEN json(op, reply.body)
    ELSE IF op = "search_filters" THEN Err("HttpError")
    ELSE Err("JiraResponseDeserializeError")

IdleCall ==
    [phase |-> "idle", op |-> "none", args |-> [none |-> TRUE],
     reply |-> [kind |-> "none"], result |-> Err("none")]

\* The client variables while another part of the library is explored.
CliIdle ==
    /\ client = [none |-> TRUE]
    /\ call = [phase |-> "off"]
    /\ sent = <<>>

CliInit ==
    /\ client \in Clients
    /\ call = IdleCall
    /\ sent = <<>>

\* A call of an operation up to its await on send(), or to its early return.
Begin(op, args, start) ==
    /\ call.phase = "idle"
    /\ IF start.sends
       THEN /\ sent' = Append(sent, start.request)
            /\ call' = [IdleCall EXCEPT !.phase = "awaiting", !.op = op, !.args = args]
       ELSE /\ sent' = sent
            /\ call' = [IdleCall EXCEPT !.phase = "done", !.op = op, !.args = args,
                                        !.result = start.result]
    /\ UNCHANGED <<client, keyVars, durVars, hdrVars, fldVars, calls, onceVars>>

QueryIssues ==
    \E query \in Queries, start_at \in StartAts :
        Begin("query_issues", [query |-> query, start_at |-> start_at],
              query_issues(client, query))

PostWorklog ==
    \E issue_key \in IssueKeys, body \in WorklogBodies :
        Begin("post_worklog", [issue_key |-> issue_key, body |-> body],
              post_worklog(client, issue_key, body))

PostComment ==
    \E issue_key \in IssueKeys, body \in CommentBodies :
        Begin("post_comment", [issue_key |-> issue_key, body |-> body],
              post_comment(client, issue_key, body))

GetTransitions ==
    \E issue_key \in IssueKeys, expand \in BOOLEAN :
        Begin("get_transitions", [issue_key |-> issue_key, expand |-> expand],
              get_transitions(client, issue_key, expand))

PostTransition ==
    \E issue_key \in IssueKeys, transition \in TransitionBodies :
        Begin("post_transition", [issue_key |-> issue_key, transition |-> transition],
              post_transition(client, issue_key, transition))

GetAssignableUsers ==
    \E params \in AssignableUserParams :
        Begin("get_assignable_users", [params |-> params],
              get_assignable_users(client, params))

PostAssignUser ==
    \E issue_key \in IssueKeys, user \in Users(client.cloud) :
        Begin("post_assign_user", [issue_key |-> issue_key, user |-> user],
              post_assign_user(client, issue_key, user))

GetUser ==
    \E user \in UserKeys :
        Begin("get_user", [user |-> user], get_user(client, user))

SearchFilters ==
    /\ client.cloud
    /\ \E filter \in FilterNames :
        Begin("search_filters", [filter |-> filter], search_filters(client, filter))

\* A completion of send() that hands the request to the transport once more
\* after a transport failure.
Receive_SendsAgain ==
    /\ call.phase = "awaiting"
    /\ \E reply \in TransportOutcomes(sent[Len(sent)]) :
        IF reply.kind = "transport_error" /\ Len(sent) < 2
        THEN /\ sent' = Append(sent, sent[Len(sent)])
             /\ call' = call
        ELSE /\ sent' = sent
             /\ call' = [call EXCEPT !.phase = "done", !.reply = reply,
                                     !.result = Finish(call.op, reply)]
    /\ UNCHANGED <<client, keyVars, durVars, hdrVars, fldVars, calls, onceVars>>

\* send() completes and the operation runs to its return.
Receive ==
    /\ call.phase = "awaiting"
    /\ \E reply \in TransportOutcomes(sent[Len(sent)]) :
        call' = [call EXCEPT !.phase = "done", !.reply = reply,
                             !.result = Finish(call.op, reply)]
    /\ UNCHANGED <<client, sent, keyVars, durVars, hdrVars, fldVars, calls, onceVars>>

\* The caller takes the result; the next call starts afresh.
Return ==
    /\ call.phase = "done"
    /\ call' = IdleCall
    /\ sent' = <<>>
    /\ UNCHANGED <<client, keyVars, durVars, hdrVars, fldVars, calls, onceVars>>

----------------------------------------------------------------------------
(* Decoding the fields object of an issue *)

\* Most entries of a wire object explored.
MaxEntries == 3

\* The two modules that declare IssueFields.
FieldsModules == {"models", "types"}

\* Fields of struct IssueFields, by their Rust names, with the type inside
\* the Option.  status is declared in models.rs and is a TODO in types.rs.
FieldsOf(module) ==
    [name : {"summary", "last_viewed"}, type : {"String"}]
    \cup [name : {"timespent"}, type : {"u32"}]
    \cup (IF module = "models" THEN [name : {"status"}, type : {"Status"}] ELSE {})

\* #[serde(rename_all = "camelCase")] on the field names of the model.
camelCase(name) == IF name = "last_viewed" THEN "lastViewed" ELSE name

\* The wire keys the derived visitor of the module matches.
DeclaredKeys(module) == {camelCase(f.name) : f \in FieldsOf(module)}

\* Keys of wire objects: declared ones, the snake-case spelling of one, a
\* custom field.
WireKeys ==
    {"summary", "timespent", "lastViewed", "last_viewed", "status", "customfield_10001"}

\* JSON values, tagged with their kind.
JsonValues ==
    {[t |-> "null", v |-> "null"], [t |-> "string", v |-> "x"], [t |-> "number", v |-> "7"]}

\* Wire objects as their entries in document order, no key twice.
WireObjects ==
    {es \in SeqsUpTo([key : WireKeys, value : JsonValues], MaxEntries) :
        \A i, j \in 1..Len(es) : es[i].key = es[j].key => i = j}

\* Deserialize for Option<T> of a declared field: null is None, a value of the
\* type is Some, any other value is an error.
DeserializeOption(type, value) ==
    IF value.t = "null" THEN Ok(None)
    ELSE IF \/ type = "String" /\ value.t = "string"
            \/ type = "u32" /\ value.t = "number"
    THEN Ok(Some(value.v))
    ELSE Err("invalid type")

\* serde's buffered Content of a value, and the serde_json::Value read back
\* from it.
Content(value) ==
    [c |-> CASE value.t = "null" -> "Unit"
             [] value.t = "string" -> "String"
             [] value.t = "number" -> "U64",
     v |-> value.v]
Value_from_content(content) ==
    [t |-> CASE content.c = "Unit" -> "null"
             [] content.c = "String" -> "string"
             [] content.c = "U64" -> "number",
     v |-> content.v]

\* BTreeMap<String, Value> from the collected entries: a later entry of a key
\* replaces an earlier one.
RECURSIVE BTreeMap_from(_)
BTreeMap_from(collected) ==
    IF collected = <<>> THEN <<>>
    ELSE LET last == collected[Len(collected)]
             rest == BTreeMap_from(SubSeq(collected, 1, Len(collected) - 1))
         IN  [k \in DOMAIN rest \cup {last.key} |->
                 IF k = last.key THEN Value_from_content(last.content) ELSE rest[k]]

\* The visitor derived for IssueFields, entry by entry.  acc holds the
\* declared fields read so far, the entries collected for the flattened map
\* and the error, if any.
RECURSIVE visit_map(_, _, _)
visit_map(module, entries, acc) ==
    IF entries = <<>> \/ acc.err # None THEN acc
    ELSE LET e == Head(entries)
             fs == {f \in FieldsOf(module) : camelCase(f.name) = e.key}
         IN  IF fs = {}
             THEN visit_map(module, Tail(entries),
                     [acc EXCEPT !.collect =
                         Append(@, [key |-> e.key, content |-> Content(e.value)])])
             ELSE LET f == CHOOSE g \in fs : TRUE
                      r == DeserializeOption(f.type, e.value)
                  IN  IF f.name \in DOMAIN acc.fields
                      THEN [acc EXCEPT !.err = Some("duplicate field")]
                      ELSE IF ~r.ok THEN [acc EXCEPT !.err = Some(r.err)]
                      ELSE visit_map(module, Tail(entries),
                              [acc EXCEPT !.fields =
                                  [n \in DOMAIN acc.fields \cup {f.name} |->
                                      IF n = f.name THEN r.val ELSE acc.fields[n]]])

\* A derived visitor whose flattened map is handed every entry of the object.
IssueFields_deserialize_MapTakesAll(module, entries) ==
    LET acc == visit_map(module, entries, [fields |-> <<>>, collect |-> <<>>, err |-> None])
    IN  IF acc.err # None THEN Err(acc.err[1])
        ELSE Ok([fields |-> [f \in {g.name : g \in FieldsOf(module)} |->
                                IF f \in DOMAIN acc.fields THEN acc.fields[f] ELSE None],
                 customfields |-> BTreeMap_from(
                     [i \in 1..Len(entries) |->
                         [key |-> entries[i].key, content |-> Content(entries[i].value)]])])

\* Deserialize for IssueFields: the declared fields from their entries, None
\* for the absent ones, and customfields from the entries left over.
IssueFields_deserialize(module, entries) ==
    LET acc == visit_map(module, entries, [fields |-> <<>>, collect |-> <<>>, err |-> None])
    IN  IF acc.err # None THEN Err(acc.err[1])
        ELSE Ok([fields |-> [f \in {g.name : g \in FieldsOf(module)} |->
                                IF f \in DOMAIN acc.fields THEN acc.fields[f] ELSE None],
                 customfields |-> BTreeMap_from(acc.collect)])

\* The fields variables while another part of the library is explored.
FldIdle ==
    /\ fieldsInput = [none |-> TRUE]
    /\ fieldsPc = "idle"
    /\ fieldsResult = Err("none")

FldInit ==
    /\ fieldsInput \in [module : FieldsModules, entries : WireObjects]
    /\ fieldsPc = "start"
    /\ fieldsResult = Err("none")

DecodeFields ==
    /\ fieldsPc = "start"
    /\ fieldsPc' = "done"
    /\ fieldsResult' = IssueFields_deserialize(fieldsInput.module, fieldsInput.entries)
    /\ UNCHANGED <<fieldsInput, keyVars, durVars, hdrVars, cliVars, calls, onceVars>>

----------------------------------------------------------------------------
(* Callers that share one client *)

\* The callers: tasks that hold the same JiraAPIClient by shared reference.
Callers == {1, 2}

\* The clients the callers share: one page-size limit, no credential.
ConcClients ==
    {c \in Clients : c.max_results = 50 /\ "authorization" \notin DOMAIN c.headers}

Ops ==
    {"query_issues", "post_worklog", "post_comment", "get_transitions", "post_transition",
     "get_assignable_users", "post_assign_user", "get_user", "search_filters"}

\* The arguments the callers pass to each operation.  search_filters exists
\* in cloud builds only.
ConcArgs(c, op) ==
    CASE op = "query_issues" -> [query : Queries]
      [] op = "post_worklog" -> [issue_key : IssueKeys, body : WorklogBodies]
      [] op = "post_comment" -> [issue_key : IssueKeys, body : CommentBodies]
      [] op = "get_transitions" -> [issue_key : IssueKeys, expand : BOOLEAN]
      [] op = "post_transition" -> [issue_key : IssueKeys, transition : TransitionBodies]
      [] op = "get_assignable_users" ->
            [params : {q \in AssignableUserParams :
                          q.max_results = None /\ q.project \in {None, Some(<<"AB">>)}}]
      [] op = "post_assign_user" -> [issue_key : IssueKeys, user : Users(c.cloud)]
      [] op = "get_user" -> [user : UserKeys]
      [] op = "search_filters" -> IF c.cloud THEN [filter : FilterNames] ELSE {}

\* The first half of the operation op on the client c, by name.
OpStart(c, op, args) ==
    CASE op = "query_issues" -> query_issues(c, args.query)
      [] op = "post_worklog" -> post_worklog(c, args.issue_key, args.body)
      [] op = "post_comment" -> post_comment(c, args.issue_key, args.body)
      [] op = "get_transitions" -> get_transitions(c, args.issue_key, args.expand)
      [] op = "post_transition" -> post_transition(c, args.issue_key, args.transition)
      [] op = "get_assignable_users" -> get_assignable_users(c, args.params)
      [] op = "post_assign_user" -> post_assign_user(c, args.issue_key, args.user)
      [] op = "get_user" -> get_user(c, args.user)
      [] op = "search_filters" -> search_filters(c, args.filter)

\* The outcomes of send() the callers see: a transport failure, a response
\* with the expected body, a response whose body is not JSON.
ConcOutcomes(request) ==
    {o \in TransportOutcomes(request) :
        \/ o.kind = "transport_error"
        \/ o.status = 200 /\ ~o.anonymous /\ o.body \in {"expected", "not_json"}}

\* A caller with no call in progress.
NoCall ==
    [phase |-> "idle", op |-> "none", args |-> [none |-> TRUE], request |-> None,
     reply |-> [kind |-> "none"], result |-> Err("none")]

\* The callers' variable while another part of the library is explored.
ConcIdle == calls = <<>>

ConcInit ==
    /\ client \in ConcClients
    /\ call = [phase |-> "off"]
    /\ sent = <<>>
    /\ calls = [p \in Callers |-> NoCall]

\* An operation that lowers the page-size limit of the client it is called on.
ConcBegin_LowersPageSize(p, op, args) ==
    LET start == OpStart(client, op, args)
    IN  /\ calls[p].phase = "idle"
        /\ calls' = [calls EXCEPT ![p] =
               IF start.sends
               THEN [NoCall EXCEPT !.phase = "awaiting", !.op = op, !.args = args,
                                   !.request = Some(start.request)]
               ELSE [NoCall EXCEPT !.phase = "done", !.op = op, !.args = args,
                                   !.result = start.result]]
        /\ client' = [client EXCEPT !.max_results = 1]
        /\ UNCHANGED <<call, sent, keyVars, durVars, hdrVars, fldVars, onceVars>>

\* The caller p calls op through &self, up to its await on send() or to its
\* early return.
ConcBegin(p, op, args) ==
    LET start == OpStart(client, op, args)
    IN  /\ calls[p].phase = "idle"
        /\ calls' = [calls EXCEPT ![p] =
               IF start.sends
               THEN [NoCall EXCEPT !.phase = "awaiting", !.op = op, !.args = args,
                                   !.request = Some(start.request)]
               ELSE [NoCall EXCEPT !.phase = "done", !.op = op, !.args = args,
                                   !.result = start.result]]
        /\ UNCHANGED <<cliVars, keyVars, durVars, hdrVars, fldVars, onceVars>>

ConcCall(p) ==
    \E op \in Ops : \E args \in ConcArgs(client, op) : ConcBegin(p, op, args)

\* The send() of the caller p completes and its operation runs to its return.
ConcReceive(p) ==
    /\ calls[p].phase = "awaiting"
    /\ \E reply \in ConcOutcomes(calls[p].request[1]) :
        calls' = [calls EXCEPT ![p] =
            [calls[p] EXCEPT !.phase = "done", !.reply = reply,
                             !.result = Finish(calls[p].op, reply)]]
    /\ UNCHANGED <<cliVars, keyVars, durVars, hdrVars, fldVars, onceVars>>

\* The caller p takes its result.
ConcReturn(p) ==
    /\ calls[p].phase = "done"
    /\ calls' = [calls EXCEPT ![p] = NoCall]
    /\ UNCHANGED <<cliVars, keyVars, durVars, hdrVars, fldVars, onceVars>>

----------------------------------------------------------------------------
(* The compiled patterns: static OnceLock<Regex> *)

\* The threads of the process that call the two try_from.
Threads == {1, 2, 3}

\* The statics, and the pattern text the closure of each compiles.
Statics == {"ISSUE_RE", "WORKLOG_RE"}
PatternOf(static) ==
    IF static = "ISSUE_RE" THEN "([A-Z]{2,}-[0-9]+)"
    ELSE "([0-9]+(?:\\.[0-9]+)?)[WwDdHhMm]?"

\* OnceLock::new(): nothing stored, the Once not started.  compiles counts
\* the runs of Regex::new for the static.
OnceLock_new == [state |-> "incomplete", value |-> None, compiles |-> 0]

\* Regex::new(pattern) run for the n-th time: a compiled pattern of its own.
Regex_new(pattern, n) == [pattern |-> pattern, build |-> n]

\* A get_or_init that starts its closure whenever nothing is stored yet,
\* without taking the Once.
OnceLock_enter_Unguarded(cell) ==
    IF cell.state = "complete" THEN [cell |-> cell, pc |-> "matching"]
    ELSE [cell |-> cell, pc |-> "compiling"]

\* OnceLock::get_or_init up to its closure: a complete cell is read, an
\* incomplete one is taken by the caller, which goes on to run the closure.
\* (While the closure of another thread runs, the caller is parked.)
OnceLock_enter(cell) ==
    IF cell.state = "complete" THEN [cell |-> cell, pc |-> "matching"]
    ELSE [cell |-> [cell EXCEPT !.state = "running"], pc |-> "compiling"]

\* The end of the closure: its Regex is stored and the Once completes.
OnceLock_store(cell, pattern) ==
    [state |-> "complete",
     value |-> Some(Regex_new(pattern, cell.compiles + 1)),
     compiles |-> cell.compiles + 1]

\* A thread outside try_from.
IdleThread == [pc |-> "idle", static |-> "none", used |-> None]

\* The variables of the statics while another part of the library is
\* explored.
OnceIdle == reCells = <<>> /\ threads = <<>>

OnceInit ==
    /\ reCells = [static \in Statics |-> OnceLock_new]
    /\ threads = [t \in Threads |-> IdleThread]

\* The thread t calls IssueKey::try_from or WorklogDuration::try_from.
TryFromCall(t) ==
    /\ threads[t].pc = "idle"
    /\ \E static \in Statics :
        threads' = [threads EXCEPT ![t] = [IdleThread EXCEPT !.pc = "get_or_init",
                                                            !.static = static]]
    /\ UNCHANGED <<reCells, keyVars, durVars, hdrVars, cliVars, fldVars, calls>>

\* get_or_init of the thread t, when no closure of another thread is running.
GetOrInit(t) ==
    LET static == threads[t].static
        after  == OnceLock_enter(reCells[static])
    IN  /\ threads[t].pc = "get_or_init"
        /\ reCells[static].state # "running"
        /\ reCells' = [reCells EXCEPT ![static] = after.cell]
        /\ threads' = [threads EXCEPT ![t] =
               [threads[t] EXCEPT !.pc = after.pc,
                                  !.used = IF after.pc = "matching"
                                           THEN after.cell.value ELSE None]]
        /\ UNCHANGED <<keyVars, durVars, hdrVars, cliVars, fldVars, calls>>

\* The closure of the thread t compiles the pattern; get_or_init returns the
\* reference to what the cell holds.
Compile(t) ==
    LET static == threads[t].static
        stored == OnceLock_store(reCells[static], PatternOf(static))
    IN  /\ threads[t].pc = "compiling"
        /\ reCells' = [reCells EXCEPT ![static] = stored]
        /\ threads' = [threads EXCEPT ![t] =
               [threads[t] EXCEPT !.pc = "matching", !.used = stored.value]]
        /\ UNCHANGED <<keyVars, durVars, hdrVars, cliVars, fldVars, calls>>

\* captures() on the pattern the thread t was handed, and the return of
\* try_from.
Match(t) ==
    /\ threads[t].pc = "matching"
    /\ threads' = [threads EXCEPT ![t] = IdleThread]
    /\ UNCHANGED <<reCells, keyVars, durVars, hdrVars, cliVars, fldVars, calls>>

----------------------------------------------------------------------------
(* Specifications *)

\* The client and its operations.
Init == KeyIdle /\ DurIdle /\ HdrIdle /\ CliInit /\ FldIdle /\ ConcIdle /\ OnceIdle

Next ==
    \/ QueryIssues
    \/ PostWorklog
    \/ PostComment
    \/ GetTransitions
    \/ PostTransition
    \/ GetAssignableUsers
    \/ PostAssignUser
    \/ GetUser
    \/ SearchFilters
    \/ Receive
    \/ Return

Spec == Init /\ [][Next]_vars

\* The ways an IssueKey comes to exist.
KeySpecInit == KeyInit /\ DurIdle /\ HdrIdle /\ CliIdle /\ FldIdle /\ ConcIdle /\ OnceIdle

KeyNext == KeyTryFrom \/ KeyDeserialize \/ KeyConstruct \/ KeyDisplay \/ KeyReparse

SpecKey == KeySpecInit /\ [][KeyNext]_vars

\* WorklogDuration::try_from on every input.
DurSpecInit == KeyIdle /\ DurInit /\ HdrIdle /\ CliIdle /\ FldIdle /\ ConcIdle /\ OnceIdle

DurNext == DurTryFrom \/ DurDisplay

SpecDur == DurSpecInit /\ [][DurNext]_vars

\* build_headers on every credential.
HdrSpecInit == KeyIdle /\ DurIdle /\ HdrInit /\ CliIdle /\ FldIdle /\ ConcIdle /\ OnceIdle

HdrNext == BuildHeaders

SpecHdr == HdrSpecInit /\ [][HdrNext]_vars

\* Decoding the fields object of an issue, for every wire object.
FldSpecInit ==
    KeyIdle /\ DurIdle /\ HdrIdle /\ CliIdle /\ FldInit /\ ConcIdle /\ OnceIdle

FldNext == DecodeFields

SpecFields == FldSpecInit /\ [][FldNext]_vars

\* Two callers on one shared client, their operations interleaved at the
\* awaits.
ConcSpecInit == KeyIdle /\ DurIdle /\ HdrIdle /\ FldIdle /\ ConcInit /\ OnceIdle

ConcNext == \E p \in Callers : ConcCall(p) \/ ConcReceive(p) \/ ConcReturn(p)

SpecConc == ConcSpecInit /\ [][ConcNext]_vars

\* try_from called from several threads, again and again.
OnceSpecInit == KeyIdle /\ DurIdle /\ HdrIdle /\ CliIdle /\ FldIdle /\ ConcIdle /\ OnceInit

OnceNext == \E t \in Threads : TryFromCall(t) \/ GetOrInit(t) \/ Compile(t) \/ Match(t)

SpecOnce == OnceSpecInit /\ [][OnceNext]_vars

\* The two values with a Display of their own, each made and then shown.
ShowInit ==
    /\ \/ KeyInit /\ DurIdle
       \/ KeyIdle /\ DurInit
    /\ HdrIdle /\ CliIdle /\ FldIdle /\ ConcIdle /\ OnceIdle

ShowNext == KeyNext \/ DurNext

SpecShow == ShowInit /\ [][ShowNext]_vars

----------------------------------------------------------------------------
(* Properties: post_worklog *)

\* A call of op has started (and has not yet been handed back).
InCall(op) == call.phase \in {"awaiting", "done"} /\ call.op = op

\* The two duration fields of a worklog body are both set or both unset.
BothOrNeither(body) == (body.time_spent # None) = (body.time_spent_seconds # None)

----------------------------------------------------------------------------
(* Properties: the classification of responses *)

\* The client was built with a credential other than Anonymous.
NonAnonymousClient == "authorization" \in DOMAIN client.headers

\* C2: query_issues on a client built with a non-anonymous credential returns
\* an authentication error whenever the search response carries the header
\* that signals a session downgraded to anonymous, whatever the status.
C2_AnonymousDowngradeIsAuthError ==
    (/\ InCall("query_issues")
     /\ call.phase = "done"
     /\ NonAnonymousClient
     /\ call.reply.kind = "response"
     /\ call.reply.anonymous)
        => call.result = Err("AuthenticationError")

\* C3: whatever the operation, a response whose status is not 2xx is never
\* returned as a success: the call returns a response-decode error.
C3_Non2xxNeverSucceeds ==
    (/\ call.phase = "done"
     /\ call.reply.kind = "response"
     /\ call.reply.status \notin 200..299)
        => call.result = Err("JiraResponseDeserializeError")

----------------------------------------------------------------------------
(* Properties: IssueKey *)

\* t as a whole has the form letters{2,} - digits{1,}.
MatchesIssuePattern(t) ==
    \E k \in 2..(Len(t) - 2) :
        /\ \A x \in 1..k : IsAZ(t[x])
        /\ t[k + 1] = "-"
        /\ \A x \in (k + 2)..Len(t) : IsDigit(t[x])

\* The substrings of s of that form, as <<first, last>> positions.
IssueMatches(s) ==
    {m \in (1..Len(s)) \X (1..Len(s)) :
        m[1] <= m[2] /\ MatchesIssuePattern(SubSeq(s, m[1], m[2]))}

\* C4: IssueKey::try_from uppercases the whole input and returns the match of
\* letters{2,}-digits that starts leftmost in the uppercased input (the longest
\* one starting there); it fails exactly when the uppercased input has no
\* substring of that form.
C4_LeftmostMatchOfUppercased ==
    keyVia = "try_from" =>
        LET upper == to_uppercase(keyInput)
            all   == IssueMatches(upper)
        IN  IF all = {} THEN keyResult = Err("TryFromError")
            ELSE /\ keyResult.ok
                 /\ \E m \in all :
                        /\ keyResult.val = SubSeq(upper, m[1], m[2])
                        /\ \A n \in all :
                               m[1] < n[1] \/ (m[1] = n[1] /\ m[2] >= n[2])

\* A lower-case key inside other text was found and returned in upper case.
C4_Witness ==
    /\ keyVia = "try_from"
    /\ keyInput = <<"1", "a", "B", "-", "1">>
    /\ keyResult = Ok(<<"A", "B", "-", "1">>)

\* C5: every IssueKey that exists holds a string that as a whole has the form
\* letters{2,}-digits, whichever way it was made.
C5_EveryIssueKeyMatchesPattern ==
    (keyVia \in {"try_from", "deserialize", "construct"} /\ keyResult.ok)
        => MatchesIssuePattern(keyResult.val)

----------------------------------------------------------------------------
(* Properties: WorklogDuration *)

\* The seconds of the conversion table for a unit text, <<>> for no unit.
UnitSeconds(u) ==
    CASE u = <<>> -> 60
      [] u \in {<<"m">>, <<"M">>} -> 60
      [] u \in {<<"h">>, <<"H">>} -> 3600
      [] u \in {<<"d">>, <<"D">>} -> 28800
      [] u \in {<<"w">>, <<"W">>} -> 144000

\* t is the decimal text of a natural number: digits, no needless leading 0.
IsDecimalText(t) ==
    /\ Len(t) >= 1
    /\ \A i \in 1..Len(t) : IsDigit(t[i])
    /\ Len(t) > 1 => t[1] # "0"

----------------------------------------------------------------------------
(* Properties: build_headers *)

\* C8: build_headers gives no Authorization entry for Anonymous, the entry
\* "Basic " + unpadded base64 of login:token for ApiToken, and the entry
\* "Bearer " + t for PersonalAccessToken(t).
C8_AuthorizationHeader ==
    hdrPc = "done" =>
        CASE credential.kind = "Anonymous" ->
                /\ ~hdrResult.panic
                /\ "authorization" \notin DOMAIN hdrResult.headers
          [] credential.kind = "ApiToken" ->
                /\ ~hdrResult.panic
                /\ "authorization" \in DOMAIN hdrResult.headers
                /\ hdrResult.headers["authorization"].text =
                       BasicPrefix \o STANDARD_NO_PAD_encode(
                           credential.login \o <<":">> \o credential.token)
          [] credential.kind = "PersonalAccessToken" ->
                /\ ~hdrResult.panic
                /\ "authorization" \in DOMAIN hdrResult.headers
                /\ hdrResult.headers["authorization"].text =
                       BearerPrefix \o credential.token

\* C9: build_headers is total: for every credential, whatever its login and
\* token hold, it returns a header set and does not abort.
C9_BuildHeadersTotal ==
    hdrPc = "done" => ~hdrResult.panic

----------------------------------------------------------------------------
(* Properties: get_assignable_users *)

\* The query text of the one request sent.
SentQuery == sent[1].url.query[1]

----------------------------------------------------------------------------
(* Properties: paging, the base url, the request urls *)

\* C11: query_issues sends one search request per call, whose maxResults is
\* the page-size limit of the client and whose startAt is the offset the
\* caller chooses.
C11_PageSizeAndCallerStartAt ==
    InCall("query_issues") =>
        /\ Len(sent) <= 1
        /\ \A i \in 1..Len(sent) :
              /\ sent[i].body.max_results = client.max_results
              /\ sent[i].body.start_at = call.args.start_at

\* C12: the base url a constructed client stores has no path, no query and
\* no fragment.
C12_BaseUrlStripped ==
    client.url.path = <<>> /\ client.url.query = None /\ client.url.fragment = None

\* The method of each operation, from the endpoint table.
OpMethod(op) ==
    CASE op \in {"query_issues", "post_worklog", "post_comment", "post_transition"} -> "POST"
      [] op = "post_assign_user" -> "PUT"
      [] op \in {"get_transitions", "get_assignable_users", "get_user",
                 "search_filters"} -> "GET"

\* The path of each operation below /rest/api/<version>/, from the endpoint
\* table.
OpPath(op, args) ==
    CASE op = "query_issues" -> <<"search">>
      [] op = "post_worklog" -> <<"issue", args.issue_key, "worklog">>
      [] op = "post_comment" -> <<"issue", args.issue_key, "comment">>
      [] op \in {"get_transitions", "post_transition"} ->
            <<"issue", args.issue_key, "transitions">>
      [] op = "get_assignable_users" -> <<"user", "assignable", "search">>
      [] op = "post_assign_user" -> <<"issue", args.issue_key, "assignee">>
      [] op = "get_user" -> <<"user">>
      [] op = "search_filters" -> <<"filter", "search">>

----------------------------------------------------------------------------
(* Properties: the shapes of the two builds, decoding, one request a call *)

\* The pieces of a query text.
Pieces(q) == {q[i] : i \in 1..Len(q)}

\* C14: the build fixes the shape of the requests that differ between the
\* builds.  Hosted: the body of post_assign_user is exactly {name: user.name},
\* get_user names the user by username, the assignable-user search passes the
\* username as username=.  Cloud: the body is exactly {accountId:
\* user.account_id}, get_user uses accountId, the search uses query=.  No call
\* of one build has the shape of the other.
C14_VariantShape ==
    \A i \in 1..Len(sent) :
        /\ call.op = "post_assign_user" =>
              sent[i].body.json = IF client.cloud
                                  THEN [accountId |-> call.args.user.account_id]
                                  ELSE [name |-> call.args.user.name]
        /\ call.op = "get_user" =>
              /\ sent[i].url.query[1][1] = IF client.cloud THEN "accountId" ELSE "username"
              /\ sent[i].url.query[1][2] = "="
        /\ (call.op = "get_assignable_users" /\ call.args.params.username # None) =>
              /\ Contains(sent[i].url.query[1],
                          <<"&", IF client.cloud THEN "query=" ELSE "username=">>
                          \o call.args.params.username[1])
              /\ (IF client.cloud THEN "username=" ELSE "query=")
                    \notin Pieces(sent[i].url.query[1])

\* A cloud client has asked for a user by account id.
C14_Witness ==
    /\ InCall("get_user")
    /\ client.cloud
    /\ Len(sent) = 1
    /\ sent[1].url.query = Some(<<"accountId", "=", "ann">>)

\* The operations that decode the body of the response.
DecodingOps ==
    {"query_issues", "get_transitions", "get_assignable_users", "get_user",
     "search_filters"}

\* C15: every operation that decodes the body of the response reports a body
\* the decoder rejects as the response-decode error, never as a transport
\* error or any other kind.
C15_DecodeFailureKind ==
    (/\ call.phase = "done"
     /\ call.op \in DecodingOps
     /\ call.reply.kind = "response"
     /\ ~json(call.op, call.reply.body).ok)
        => call.result = Err("JiraResponseDeserializeError")

\* The errors an operation returns before it sends.
EarlyErrors == {Err("UrlParseError"), Err("JiraRequestBodyError")}

\* C19: every call hands at most one request to the transport: exactly one
\* when the url is built and the input is valid, none when the call returns a
\* url or validation error; a call that ends in a transport failure or a
\* decode failure has sent once.
C19_AtMostOneRequest ==
    /\ Len(sent) <= 1
    /\ call.phase = "awaiting" => Len(sent) = 1
    /\ call.phase = "done" =>
          Len(sent) = IF call.result \in EarlyErrors THEN 0 ELSE 1
    /\ (call.phase = "done" /\ call.reply.kind = "none") => call.result \in EarlyErrors

\* A search ended in a transport failure, with one request sent.
C19_Witness ==
    /\ InCall("query_issues")
    /\ call.phase = "done"
    /\ call.reply = TransportError
    /\ call.result = Err("HttpError")
    /\ Len(sent) = 1

----------------------------------------------------------------------------
(* Properties: the content headers *)

\* The text "application/json", spelled out.
JsonText ==
    <<"a", "p", "p", "l", "i", "c", "a", "t", "i", "o", "n", "/", "j", "s", "o", "n">>

\* C18: for every credential variant, the header set build_headers returns
\* holds Accept = application/json and Content-Type = application/json.
C18_ContentHeaders ==
    (hdrPc = "done" /\ ~hdrResult.panic) =>
        \A n \in {"accept", "content-type"} :
            /\ n \in DOMAIN hdrResult.headers
            /\ hdrResult.headers[n].text = JsonText

\* The header set of a personal access token has been built.
C18_Witness ==
    /\ hdrPc = "done"
    /\ credential.kind = "PersonalAccessToken"
    /\ ~hdrResult.panic
    /\ DOMAIN hdrResult.headers = {"accept", "content-type", "authorization"}

----------------------------------------------------------------------------
(* Properties: Display *)

\* C17: the Display output of every IssueKey and of every WorklogDuration is
\* exactly the string the value stores: nothing added, removed or re-cased.
C17_DisplayIsStoredString ==
    /\ keyShown # None => keyShown = Some(keyResult.val)
    /\ durShown # None => durShown = Some(durResult.val)

\* An IssueKey built directly from lower-case text is shown in lower case.
C17_Witness ==
    /\ keyVia = "construct"
    /\ keyInput = <<"a", "a", "-", "1">>
    /\ keyShown = Some(<<"a", "a", "-", "1">>)

----------------------------------------------------------------------------
(* Properties: customfields *)

\* C16: decoding the fields object of an issue loses no unknown field and
\* absorbs no declared one: every key of the wire object that the schema does
\* not declare is in customfields with its value unchanged, and no declared
\* key is in customfields.
C16_CustomfieldsAreTheUndeclared ==
    (fieldsPc = "done" /\ fieldsResult.ok) =>
        LET entries  == fieldsInput.entries
            declared == DeclaredKeys(fieldsInput.module)
            custom   == fieldsResult.val.customfields
        IN  /\ \A i \in 1..Len(entries) :
                  entries[i].key \notin declared =>
                      /\ entries[i].key \in DOMAIN custom
                      /\ custom[entries[i].key] = entries[i].value
            /\ \A k \in DOMAIN custom : k \notin declared

\* An object with a declared field, a custom field and the snake-case
\* spelling of a declared field was decoded.
C16_Witness ==
    /\ fieldsPc = "done"
    /\ fieldsResult.ok
    /\ fieldsInput.module = "models"
    /\ {fieldsInput.entries[i].key : i \in 1..Len(fieldsInput.entries)} =
          {"summary", "customfield_10001", "last_viewed"}
    /\ fieldsResult.val.fields["summary"] = Some("x")
    /\ DOMAIN fieldsResult.val.customfields = {"customfield_10001", "last_viewed"}

----------------------------------------------------------------------------
(* Properties: a shared client *)

\* The request and the result of the call of p are those of the same
\* operation run alone on the client with the same arguments and the same
\* reply.
AsAlone(p) ==
    LET c     == calls[p]
        alone == OpStart(client, c.op, c.args)
    IN  c.phase \in {"awaiting", "done"} =>
            /\ c.request = IF alone.sends THEN Some(alone.request) ELSE None
            /\ c.phase = "done" =>
                  c.result = IF alone.sends THEN Finish(c.op, c.reply) ELSE alone.result

\* C20: no operation changes the state of the client (base url, version,
\* page-size limit, default headers), and under every interleaving of the
\* operations of callers that share the client, the request and the result of
\* each operation are those of the operation run alone with the same inputs
\* and the same response.
C20_SharedClient ==
    [][client' = client /\ \A p \in Callers : AsAlone(p)']_vars

\* One caller has its search result while the call of the other, started
\* before that result arrived, still awaits its response.
C20_Witness ==
    /\ calls[1].phase = "done"
    /\ calls[1].op = "query_issues"
    /\ calls[1].result.ok
    /\ calls[2].phase = "awaiting"
    /\ calls[2].op = "post_worklog"

----------------------------------------------------------------------------
(* Properties: the first token of a duration, a key parsed again *)

\* n is the text of a number: digits, or digits, a point and digits.
IsNumberText(n) ==
    \/ Len(n) >= 1 /\ \A i \in 1..Len(n) : IsDigit(n[i])
    \/ \E d \in 2..(Len(n) - 1) :
          /\ n[d] = "."
          /\ \A i \in 1..Len(n) : i # d => IsDigit(n[i])

\* The digits of a number text, and the power of ten they are over.
NumberDigits(n) == SelectSeq(n, LAMBDA c : c # ".")
NumberDen(n) ==
    IF \E d \in 1..Len(n) : n[d] = "."
    THEN Pow10(Len(n) - (CHOOSE d \in 1..Len(n) : n[d] = "."))
    ELSE 1

\* The length of the number of the token t, a number with nothing or one unit
\* letter right after it; 0 when t is no token.
TokenNumberLen(t) ==
    IF t = <<>> THEN 0
    ELSE IF IsNumberText(t) THEN Len(t)
    ELSE IF IsUnit(t[Len(t)]) /\ IsNumberText(SubSeq(t, 1, Len(t) - 1)) THEN Len(t) - 1
    ELSE 0

\* s[a..b] is the first numeric token of s: no digit comes before it and it
\* cannot be made longer.
IsFirstToken(s, a, b) ==
    /\ a <= b
    /\ \A i \in 1..(a - 1) : ~IsDigit(s[i])
    /\ TokenNumberLen(SubSeq(s, a, b)) > 0
    /\ \A c \in (b + 1)..Len(s) : TokenNumberLen(SubSeq(s, a, c)) = 0

\* C22: WorklogDuration::try_from uses the first numeric token of the input
\* and the unit letter right after it, nothing else: the result is the
\* integer nearest to the number of that token times the seconds of its unit
\* (minutes when no unit letter follows at once), whatever text comes before
\* the token, after it, or between it and a later unit letter or number.
C22_FirstTokenOnly ==
    durPc = "done" =>
        \A a, b \in 1..Len(durInput) :
            IsFirstToken(durInput, a, b) =>
                LET token  == SubSeq(durInput, a, b)
                    k      == TokenNumberLen(token)
                    number == SubSeq(token, 1, k)
                    secs   == UnitSeconds(SubSeq(token, k + 1, Len(token)))
                    exact  == DigitsVal(NumberDigits(number)) * secs
                    den    == NumberDen(number)
                IN  /\ durResult.ok
                    /\ IsDecimalText(durResult.val)
                    /\ 2 * (den * DigitsVal(durResult.val) - exact) <= den
                    /\ 2 * (exact - den * DigitsVal(durResult.val)) <= den

\* An hour followed by a second number came out as the hour alone.
C22_Witness ==
    /\ durPc = "done"
    /\ durInput = <<"1", "h", "5">>
    /\ durResult = Ok(<<"3", "6", "0", "0">>)

\* C23: IssueKey parsing is idempotent on its own output: when try_from
\* succeeds on an input with the key k, try_from on the displayed string of k
\* succeeds with a key equal to k.
C23_ParseIsIdempotent ==
    (keyVia = "try_from" /\ keyAgain # None) => keyAgain = Some(keyResult)

\* A key found inside lower-case text with a character before it was shown
\* and parsed again.
C23_Witness ==
    /\ keyVia = "try_from"
    /\ keyInput = <<"1", "a", "B", "-", "1">>
    /\ keyResult = Ok(<<"A", "B", "-", "1">>)
    /\ keyAgain = Some(Ok(<<"A", "B", "-", "1">>))

----------------------------------------------------------------------------
(* Properties: the compiled patterns *)

\* C21: over any number of calls of the two try_from, one after another and
\* at once, each of the two patterns is compiled at most once, every call
\* matches against that one compiled pattern, and a pattern once stored never
\* changes.
C21_CompiledOnce ==
    [][/\ \A static \in Statics :
            /\ reCells'[static].compiles <= 1
            /\ reCells[static].value # None =>
                  reCells'[static].value = reCells[static].value
       /\ \A t \in Threads :
            threads'[t].pc = "matching" =>
                /\ threads'[t].used =
                      Some(Regex_new(PatternOf(threads'[t].static), 1))
                /\ threads'[t].used = reCells'[threads'[t].static].value]_vars

\* Two threads match against the one compiled ISSUE_RE at once, while a
\* third, which found WORKLOG_RE being compiled, waits in get_or_init.
C21_Witness ==
    /\ threads[1].pc = "matching" /\ threads[1].static = "ISSUE_RE"
    /\ threads[2].pc = "matching" /\ threads[2].static = "ISSUE_RE"
    /\ reCells["ISSUE_RE"].compiles = 1
    /\ threads[3].pc = "compiling" /\ threads[3].static = "WORKLOG_RE"

====
